---- MODULE Spec2Model ----
(***************************************************************************)
(* Metrics tabularization pipeline of code-kube.                           *)
(*                                                                         *)
(*   KubernetesMetricsCollector.process_metrics / process_events           *)
(*       (src/src/data_collection/collector.py)                            *)
(*   generate_datasets (src/collect_training_data.py)                      *)
(*                                                                         *)
(* Python containers are modelled as follows.  A dict is a sequence of     *)
(* <<key, value>> pairs in insertion order with distinct keys; a list is a *)
(* sequence.  Python indices are 0-based and kept 0-based in the           *)
(* variables (timestamp_index); TLA+ sequences are 1-based, so the code's  *)
(* xs[i] is xs[i + 1] here.  A CSV cell is a record [t, n, s]: a number    *)
(* (t = "num"), a formatted timestamp (t = "time") or a string (t = "str");*)
(* the empty string is what csv writes for None and for a missing key.     *)
(***************************************************************************)
EXTENDS Integers, Sequences, FiniteSets, TLC

(***************************************************************************)
(* Bounds of the checked instances.                                        *)
(***************************************************************************)
\* longest raw series of a run
MaxLen == 2

\* most files in data/processed
MaxFiles == 2

\* most rows of all the matrices in data/processed together
MaxRows == 3

\* test fractions are the multiples of 1/SplitUnits in [0, 1]
SplitUnits == 4

(***************************************************************************)
(* Cells.                                                                  *)
(***************************************************************************)
Num(v) == [t |-> "num", n |-> v, s |-> ""]

Str(x) == [t |-> "str", n |-> 0, s |-> x]

\* json null read back by json.load
None == [t |-> "none", n |-> 0, s |-> ""]

\* csv.writer writes None as the empty string; restval of DictWriter is ''
EmptyCell == Str("")

\* Prometheus timestamps are unix seconds with a fraction; the model counts
\* them in ticks of 1/TicksPerSecond s
TicksPerSecond == 2

\* datetime.fromtimestamp(timestamp).strftime("%Y-%m-%d %H:%M:%S"): the
\* instant truncated to whole seconds
strftime(timestamp) == [t |-> "time", n |-> timestamp \div TicksPerSecond, s |-> ""]

(***************************************************************************)
(* Ordered dicts.                                                          *)
(***************************************************************************)
Keys(d) == {d[k][1] : k \in DOMAIN d}

HasKey(d, key) == \E k \in DOMAIN d : d[k][1] = key

\* d.get(key, default)
Get(d, key, default) ==
    IF HasKey(d, key)
    THEN d[CHOOSE k \in DOMAIN d : d[k][1] = key][2]
    ELSE default

\* d[key] = value: an existing key keeps its position, a new key goes last
Put(d, key, value) ==
    IF HasKey(d, key)
    THEN [k \in DOMAIN d |-> IF d[k][1] = key THEN <<key, value>> ELSE d[k]]
    ELSE Append(d, <<key, value>>)

\* list(d.keys())
KeyList(d) == [k \in DOMAIN d |-> d[k][1]]

(***************************************************************************)
(* The raw run (the JSON document process_metrics loads).                  *)
(*   category -> metric_name -> entity_key -> [[timestamp, value], ...]    *)
(***************************************************************************)
METRICS_CATEGORIES ==
    << "container_runtime", "service", "apiserver", "etcd", "loadbalancer",
       "ingress", "crd", "scheduling", "resource_quota", "node", "pod" >>

\* The series sampled for the e-th entity of a run, len samples long: entity
\* e is sampled e ticks after the first one, every 30 ticks (15 s), and its
\* values are 100*e + 1, 100*e + 2, ...
RawSeries(e, len) == [i \in 1..len |-> <<30 * (i - 1) + e, 100 * e + i>>]

VARIABLES
    metrics,          \* the raw run: [node, pod, service, events, metadata]
    lib_rejects,      \* pandas rejects a scalar as DataFrame index
    pc,               \* position of process_metrics
    timestamps,       \* the grid (line 287)
    timestamp_index,  \* next row to build (line 305), 0-based
    rows,             \* rows appended so far (line 280)
    csv_file,         \* the file at output_file: [written, headers, lines]
    returned          \* what the caller got: "", "path" or an exception name

collector_vars == <<metrics, lib_rejects, pc, timestamps, timestamp_index, rows,
                    csv_file, returned>>

\* generate_datasets (src/collect_training_data.py)
VARIABLES
    data_dir,         \* the files of data/processed, in directory order
    test_split,       \* the test fraction, in units of 1/SplitUnits
    gpc,              \* position of generate_datasets
    csv_files,        \* the files the glob found (line 137)
    all_data,         \* the frames read so far (line 146)
    combined_df,      \* line 151, shuffled at line 154
    train_df,         \* line 158
    test_df,          \* line 159
    issue_counts,     \* line 174: label value -> number of rows
    greturned         \* what the caller got

dataset_vars == <<data_dir, test_split, gpc, csv_files, all_data, combined_df,
                  train_df, test_df, issue_counts, greturned>>

\* process_events on a DatetimeIndex (collector.py lines 365-411)
VARIABLES
    event_index,      \* the index argument: [stamps, aware, offset]
    event_list,       \* the events argument
    event_df,         \* line 368: position -> column -> cell
    event_pos,        \* events of the list the loop of line 381 has taken
    nearest_idx,      \* line 401: the label selected last
    epc,              \* position of process_events
    ereturned         \* what the caller got

events_vars == <<event_index, event_list, event_df, event_pos, nearest_idx, epc,
                 ereturned>>

\* several process_metrics calls against one data/processed directory
VARIABLES
    now,              \* the wall clock, in ticks
    run_pc,           \* position of each call
    run_label,        \* cluster_issue_type of each call's raw file
    run_rows,         \* whether the call's grid gave rows
    output_file,      \* line 275, per call
    processed_dir     \* the files of data/processed: [name, writer, label]

runs_vars == <<now, run_pc, run_label, run_rows, output_file, processed_dir>>

\* the batch loops: main and collect_scenario_data of
\* src/collect_training_data.py, run_complete_workflow of src/src/main.py
VARIABLES
    workflow,         \* which of the two loops runs
    iterations,       \* --iterations
    skip_combine,     \* --skip-combine
    scenario_pos,     \* position in the scenario list
    iteration,        \* i + 1 of line 200
    bpc,              \* position of the loop body
    success,          \* what run_simulation returned last
    data_file,        \* what collect_metrics returned last
    all_data_files,   \* line 282
    collector_exit,   \* how the collector subprocess ended last
    simulated,        \* the <<scenario, iteration>> whose simulation was run
    sim_succeeded,    \* those whose simulation returned True
    collected,        \* those for which collect_metrics was called
    trained,          \* those for which train_model or predict was called
    combined          \* generate_datasets was called (line 297)

batch_vars == <<workflow, iterations, skip_combine, scenario_pos, iteration, bpc,
                success, data_file, all_data_files, collector_exit, simulated,
                sim_succeeded, collected, trained, combined>>

\* the background collection of src/src/api.py
VARIABLES
    collection_thread,      \* line 39: the Thread object, 0 for None
    collection_stop_event,  \* line 40: the Event is set
    threads,                \* position of every thread created so far
    handler,                \* the request handler the event loop is in
    response,               \* status of the last response, "" while in a handler
    serving                 \* the application has not shut down

api_vars == <<collection_thread, collection_stop_event, threads, handler,
              response, serving>>

vars == <<collector_vars, dataset_vars, events_vars, runs_vars, batch_vars, api_vars>>

(***************************************************************************)
(* Inputs: the runs the instances are checked on.                          *)
(***************************************************************************)
Lens == 0..MaxLen

\* an event record as collect_events stores it (lines 111-123);
\* last_timestamp is None or the ISO-8601 text of an instant
NoTimestamp == [given |-> FALSE, ticks |-> 0]

IsoTimestamp(ticks) == [given |-> TRUE, ticks |-> ticks]

Event(type, reason, last_timestamp) ==
    [type |-> type, reason |-> reason, last_timestamp |-> last_timestamp]

EventLists ==
    { <<>>,
      << Event("Normal", "Created", NoTimestamp) >>,
      << Event("Warning", "Killing", IsoTimestamp(61)) >> }

\* --cluster-issue-type is optional: without it the metadata holds null
IssueTypes == { Str("resource"), Str("none"), None }

\* metrics["node"]: two metrics, the first sampled on two nodes
NodeMetrics(l1, l2, l3) ==
    << <<"node_cpu_usage", << <<"n1", RawSeries(1, l1)>>,
                              <<"n2", RawSeries(2, l2)>> >> >>,
       <<"node_memory_usage", << <<"n1", RawSeries(3, l3)>> >> >> >>

\* metrics["pod"]: keys are "namespace|pod", here split at the "|";
\* the second key has no "|"
PodMetrics(l4, l5) ==
    << <<"pod_cpu_usage", << << <<"default", "p1">>, RawSeries(4, l4)>>,
                             << <<"p2">>, RawSeries(5, l5)>> >> >> >>

\* the other categories: a metric's data is a dict entity -> series or a
\* bare list (lines 332 and 337)
DictData(d) == [kind |-> "dict", items |-> d]

ListData(l) == [kind |-> "list", items |-> l]

EnhancedMetrics(form, l6) ==
    CASE form = "absent" -> <<>>
      [] form = "dict" ->
           << <<"service", << <<"latency", DictData(<< <<"s1", RawSeries(6, l6)>> >>)>> >> >> >>
      [] form = "list" ->
           << <<"service", << <<"latency", ListData(RawSeries(6, l6))>> >> >> >>

EnhancedForms == { <<"absent", 0>> } \cup ({"dict", "list"} \X Lens)

Runs ==
    { [ node |-> NodeMetrics(l1, l2, l3),
        pod |-> PodMetrics(l4, l5),
        enhanced |-> EnhancedMetrics(f[1], f[2]),
        events |-> ev,
        cluster_issue_type |-> it ] :
      l1 \in Lens, l2 \in Lens, l3 \in Lens, l4 \in Lens, l5 \in Lens,
      f \in EnhancedForms, ev \in EventLists, it \in IssueTypes }

NoFile == [written |-> FALSE, headers |-> <<>>, lines |-> <<>>]

\* a frame without columns or rows
NoFrame == [columns |-> <<>>, rows |-> <<>>]

\* generate_datasets is not running
DatasetIdle ==
    /\ data_dir = <<>>
    /\ test_split = 0
    /\ gpc = "idle"
    /\ csv_files = <<>>
    /\ all_data = <<>>
    /\ combined_df = NoFrame
    /\ train_df = NoFrame
    /\ test_df = NoFrame
    /\ issue_counts = {}
    /\ greturned = ""

\* an index without labels and without a zone
NoIndex == [stamps |-> <<>>, aware |-> FALSE, offset |-> 0]

\* process_events is not running
EventsIdle ==
    /\ event_index = NoIndex
    /\ event_list = <<>>
    /\ event_df = <<>>
    /\ event_pos = 0
    /\ nearest_idx = -1
    /\ epc = "idle"
    /\ ereturned = ""

\* no process_metrics call is under way and data/processed is empty
RunsIdle ==
    /\ now = 0
    /\ run_pc = <<>>
    /\ run_label = <<>>
    /\ run_rows = <<>>
    /\ output_file = <<>>
    /\ processed_dir = {}

\* the collector subprocess has not been run
NoExit == [launched |-> FALSE, returncode |-> 0, wrote |-> FALSE, stdout |-> <<>>]

\* no batch is running
BatchIdle ==
    /\ workflow = ""
    /\ iterations = 0
    /\ skip_combine = FALSE
    /\ scenario_pos = 0
    /\ iteration = 0
    /\ bpc = "idle"
    /\ success = FALSE
    /\ data_file = <<>>
    /\ all_data_files = <<>>
    /\ collector_exit = NoExit
    /\ simulated = {}
    /\ sim_succeeded = {}
    /\ collected = {}
    /\ trained = {}
    /\ combined = FALSE

\* the API is not running
ApiIdle ==
    /\ collection_thread = 0
    /\ collection_stop_event = FALSE
    /\ threads = <<>>
    /\ handler = "idle"
    /\ response = ""
    /\ serving = FALSE

\* process_metrics is not running
CollectorIdle ==
    /\ metrics = [node |-> <<>>, pod |-> <<>>, enhanced |-> <<>>,
                  events |-> <<>>, cluster_issue_type |-> None]
    /\ lib_rejects = TRUE
    /\ pc = "idle"
    /\ timestamps = <<>>
    /\ timestamp_index = 0
    /\ rows = <<>>
    /\ csv_file = NoFile
    /\ returned = ""

Init ==
    /\ metrics \in Runs
    /\ lib_rejects \in BOOLEAN
    /\ pc = "start"
    /\ timestamps = <<>>
    /\ timestamp_index = 0
    /\ rows = <<>>
    /\ csv_file = NoFile
    /\ returned = ""
    /\ DatasetIdle
    /\ EventsIdle
    /\ RunsIdle
    /\ BatchIdle
    /\ ApiIdle

(***************************************************************************)
(* process_metrics: the grid (collector.py lines 286-302).                 *)
(***************************************************************************)
\* [entry[0] for entry in time_series]
EntryTimestamps(time_series) ==
    [i \in DOMAIN time_series |-> time_series[i][1]]

\* One of the two scanning loops.  The inner loop breaks after its first
\* entity whatever it holds; the outer loop goes on to the next metric only
\* while timestamps is still empty.
RECURSIVE ScanTimestamps(_)
ScanTimestamps(category_metrics) ==
    IF category_metrics = <<>>
    THEN <<>>
    ELSE LET metric_data == Head(category_metrics)[2]
             found == IF metric_data = <<>>
                      THEN <<>>
                      ELSE EntryTimestamps(Head(metric_data)[2])
         IN  IF found # <<>>
             THEN found
             ELSE ScanTimestamps(Tail(category_metrics))

\* node metrics first, pod metrics only if those gave nothing; no other
\* category is looked at
GetTimestamps(m) ==
    LET from_node == ScanTimestamps(m.node)
    IN  IF from_node # <<>> THEN from_node ELSE ScanTimestamps(m.pod)

(***************************************************************************)
(* process_metrics: one row (lines 306-342).                               *)
(***************************************************************************)
\* line 317
NodeColumn(metric_name, node) == metric_name

\* line 322: pod_key.split("|") if "|" in pod_key else (pod_key, "")
PodNamespace(pod_key) == pod_key[1]

PodName(pod_key) == IF Len(pod_key) > 1 THEN pod_key[2] ELSE ""

\* line 325
PodColumn(metric_name, pod_key) ==
    metric_name \o "_" \o PodNamespace(pod_key) \o "_" \o PodName(pod_key)

\* line 336
ItemColumn(category, metric_name, item_key) ==
    category \o "_" \o metric_name \o "_" \o item_key

\* line 339
ListColumn(category, metric_name) == category \o "_" \o metric_name

\* SetValue leaving the first row without the key
SetValueSkipsFirst(row, column, time_series, index) ==
    IF 0 < index /\ index < Len(time_series)
    THEN Put(row, column, Num(time_series[index + 1][2]))
    ELSE row

\* if timestamp_index < len(time_series): row[column] = time_series[timestamp_index][1]
SetValue(row, column, time_series, index) ==
    IF index < Len(time_series)
    THEN Put(row, column, Num(time_series[index + 1][2]))
    ELSE row

\* lines 314-317
RECURSIVE AddNodeSeries(_, _, _, _)
AddNodeSeries(row, metric_name, metric_data, index) ==
    IF metric_data = <<>>
    THEN row
    ELSE AddNodeSeries(
             SetValue(row, NodeColumn(metric_name, Head(metric_data)[1]),
                      Head(metric_data)[2], index),
             metric_name, Tail(metric_data), index)

\* lines 313-317
RECURSIVE AddNodeMetrics(_, _, _)
AddNodeMetrics(row, node_metrics, index) ==
    IF node_metrics = <<>>
    THEN row
    ELSE AddNodeMetrics(
             AddNodeSeries(row, Head(node_metrics)[1], Head(node_metrics)[2], index),
             Tail(node_metrics), index)

\* lines 321-325
RECURSIVE AddPodSeries(_, _, _, _)
AddPodSeries(row, metric_name, metric_data, index) ==
    IF metric_data = <<>>
    THEN row
    ELSE AddPodSeries(
             SetValue(row, PodColumn(metric_name, Head(metric_data)[1]),
                      Head(metric_data)[2], index),
             metric_name, Tail(metric_data), index)

\* lines 320-325
RECURSIVE AddPodMetrics(_, _, _)
AddPodMetrics(row, pod_metrics, index) ==
    IF pod_metrics = <<>>
    THEN row
    ELSE AddPodMetrics(
             AddPodSeries(row, Head(pod_metrics)[1], Head(pod_metrics)[2], index),
             Tail(pod_metrics), index)

\* lines 333-336
RECURSIVE AddItemSeries(_, _, _, _, _)
AddItemSeries(row, category, metric_name, items, index) ==
    IF items = <<>>
    THEN row
    ELSE AddItemSeries(
             SetValue(row, ItemColumn(category, metric_name, Head(items)[1]),
                      Head(items)[2], index),
             category, metric_name, Tail(items), index)

\* lines 331-339: a dict of series, or a non-empty list long enough
RECURSIVE AddCategoryMetrics(_, _, _, _)
AddCategoryMetrics(row, category, category_metrics, index) ==
    IF category_metrics = <<>>
    THEN row
    ELSE LET metric_name == Head(category_metrics)[1]
             metric_data == Head(category_metrics)[2]
             next == IF metric_data.kind = "dict"
                     THEN AddItemSeries(row, category, metric_name,
                                        metric_data.items, index)
                     ELSE SetValue(row, ListColumn(category, metric_name),
                                   metric_data.items, index)
         IN  AddCategoryMetrics(next, category, Tail(category_metrics), index)

\* lines 328-339
RECURSIVE AddEnhancedMetrics(_, _, _, _)
AddEnhancedMetrics(row, categories, m, index) ==
    IF categories = <<>>
    THEN row
    ELSE LET category == Head(categories)
             next == IF category \notin {"node", "pod"} /\ HasKey(m.enhanced, category)
                     THEN AddCategoryMetrics(row, category,
                                             Get(m.enhanced, category, <<>>), index)
                     ELSE row
         IN  AddEnhancedMetrics(next, Tail(categories), m, index)

\* line 342
LabelColumn == "issue_type"

\* BuildRow with the label attached to the first row only
BuildRowLabelFirstRowOnly(m, grid, index) ==
    LET row0 == << <<"timestamp", strftime(grid[index + 1])>> >>
        row1 == AddNodeMetrics(row0, m.node, index)
        row2 == AddPodMetrics(row1, m.pod, index)
        row3 == AddEnhancedMetrics(row2, METRICS_CATEGORIES, m, index)
    IN  IF index = 0 THEN Put(row3, LabelColumn, m.cluster_issue_type) ELSE row3

\* lines 306-342: the row of grid position index (0-based)
BuildRow(m, grid, index) ==
    LET row0 == << <<"timestamp", strftime(grid[index + 1])>> >>
        row1 == AddNodeMetrics(row0, m.node, index)
        row2 == AddPodMetrics(row1, m.pod, index)
        row3 == AddEnhancedMetrics(row2, METRICS_CATEGORIES, m, index)
    IN  Put(row3, LabelColumn, m.cluster_issue_type)

(***************************************************************************)
(* process_events as process_metrics calls it (line 345): index is the     *)
(* integer timestamp_index, not an index of timestamps.                    *)
(*   line 368  pd.DataFrame(index=<int>): pandas refuses a scalar index    *)
(*             with TypeError (lib_rejects).  The library is not part of   *)
(*             the repository; lib_rejects = FALSE follows one that builds *)
(*             the frame, which is the only way the loop gets past its     *)
(*             first pass.                                                 *)
(*   line 392  index.dtype: reached by the first event that has a          *)
(*             last_timestamp; an int has no dtype (AttributeError).       *)
(* The result is the exception raised, "" for a normal return; the frame   *)
(* returned is dropped by the caller.                                      *)
(***************************************************************************)
process_events(events, index) ==
    IF lib_rejects
    THEN "TypeError"
    ELSE IF \E k \in DOMAIN events : events[k].last_timestamp.given
         THEN "AttributeError"
         ELSE ""

(***************************************************************************)
(* process_metrics: the file (lines 350-363).                              *)
(***************************************************************************)
\* csv.writer: None is written as the empty string
CsvText(value) == IF value = None THEN EmptyCell ELSE value

\* DictWriter._dict_to_list: a key missing from the row is written as
\* restval, the empty string
CsvLine(headers, row) ==
    [h \in DOMAIN headers |-> CsvText(Get(row, headers[h], EmptyCell))]

\* DictWriter(extrasaction="raise"): a row with a key outside fieldnames
ExtraFields(headers, row) ==
    Keys(row) \ {headers[h] : h \in DOMAIN headers}

(***************************************************************************)
(* process_metrics, step by step.                                          *)
(***************************************************************************)
\* lines 263-302: load the run, take the grid
ResolveGrid ==
    /\ pc = "start"
    /\ timestamps' = GetTimestamps(metrics)
    /\ pc' = "rows"
    /\ UNCHANGED <<metrics, lib_rejects, timestamp_index, rows, csv_file, returned>>
    /\ UNCHANGED <<dataset_vars, events_vars, runs_vars, batch_vars, api_vars>>

\* lines 305-348: one pass of the loop; an exception of process_events
\* leaves process_metrics before the row is appended
AppendRow ==
    /\ pc = "rows"
    /\ timestamp_index < Len(timestamps)
    /\ LET row == BuildRow(metrics, timestamps, timestamp_index)
           raised == process_events(metrics.events, timestamp_index)
       IN  IF raised # ""
           THEN /\ pc' = "raised"
                /\ returned' = raised
                /\ UNCHANGED <<rows, timestamp_index>>
           ELSE /\ rows' = Append(rows, row)
                /\ timestamp_index' = timestamp_index + 1
                /\ UNCHANGED <<pc, returned>>
    /\ UNCHANGED <<metrics, lib_rejects, timestamps, csv_file>>
    /\ UNCHANGED <<dataset_vars, events_vars, runs_vars, batch_vars, api_vars>>

\* WriteCsv raising on an empty row list instead of returning the path
WriteCsvRaisesWhenEmpty ==
    /\ pc = "rows"
    /\ timestamp_index = Len(timestamps)
    /\ IF rows # <<>>
       THEN LET headers == KeyList(rows[1])
            IN  /\ csv_file' = [written |-> TRUE,
                                headers |-> headers,
                                lines |-> [r \in DOMAIN rows |-> CsvLine(headers, rows[r])]]
                /\ pc' = "done"
                /\ returned' = "output_file"
       ELSE /\ csv_file' = csv_file
            /\ pc' = "raised"
            /\ returned' = "EmptyGridError"
    /\ UNCHANGED <<metrics, lib_rejects, timestamps, timestamp_index, rows>>
    /\ UNCHANGED <<dataset_vars, events_vars, runs_vars, batch_vars, api_vars>>

\* lines 350-363: the header is the key list of the first row; writerows
\* stops with ValueError at the first row holding a key outside the header;
\* without rows nothing is written, and the path is returned all the same
WriteCsv ==
    /\ pc = "rows"
    /\ timestamp_index = Len(timestamps)
    /\ IF rows # <<>>
       THEN LET headers == KeyList(rows[1])
                bad == {r \in DOMAIN rows : ExtraFields(headers, rows[r]) # {}}
                last == IF bad = {}
                        THEN Len(rows)
                        ELSE (CHOOSE r \in bad : \A q \in bad : r <= q) - 1
            IN  /\ csv_file' = [written |-> TRUE,
                                headers |-> headers,
                                lines |-> [r \in 1..last |-> CsvLine(headers, rows[r])]]
                /\ pc' = IF bad = {} THEN "done" ELSE "raised"
                /\ returned' = IF bad = {} THEN "output_file" ELSE "ValueError"
       ELSE /\ csv_file' = csv_file
            /\ pc' = "done"
            /\ returned' = "output_file"
    /\ UNCHANGED <<metrics, lib_rejects, timestamps, timestamp_index, rows>>
    /\ UNCHANGED <<dataset_vars, events_vars, runs_vars, batch_vars, api_vars>>

Next ==
    \/ ResolveGrid
    \/ AppendRow
    \/ WriteCsv

Spec == Init /\ [][Next]_vars

TypeOK ==
    /\ pc \in {"idle", "start", "rows", "done", "raised"}
    /\ timestamp_index \in 0..Len(timestamps)
    /\ Len(rows) = timestamp_index
    /\ returned \in {"", "output_file", "TypeError", "AttributeError", "ValueError"}

(***************************************************************************)
(* Properties of process_metrics.                                          *)
(***************************************************************************)
\* process_metrics has ended, by return or by exception
Ended == pc \in {"done", "raised"}

\* the series of a metric's dict, in order
DictSeries(metric_data) == [k \in DOMAIN metric_data |-> metric_data[k][2]]

RECURSIVE CategorySeries(_)
CategorySeries(category_metrics) ==
    IF category_metrics = <<>>
    THEN <<>>
    ELSE DictSeries(Head(category_metrics)[2]) \o CategorySeries(Tail(category_metrics))

RECURSIVE EnhancedCategorySeries(_)
EnhancedCategorySeries(category_metrics) ==
    IF category_metrics = <<>>
    THEN <<>>
    ELSE LET metric_data == Head(category_metrics)[2]
         IN  (IF metric_data.kind = "dict"
              THEN DictSeries(metric_data.items)
              ELSE << metric_data.items >>)
             \o EnhancedCategorySeries(Tail(category_metrics))

RECURSIVE EnhancedSeries(_, _)
EnhancedSeries(categories, m) ==
    IF categories = <<>>
    THEN <<>>
    ELSE (IF HasKey(m.enhanced, Head(categories))
          THEN EnhancedCategorySeries(Get(m.enhanced, Head(categories), <<>>))
          ELSE <<>>)
         \o EnhancedSeries(Tail(categories), m)

\* every series of the run: categories, metrics and entities in a fixed order
AllSeries(m) ==
    CategorySeries(m.node) \o CategorySeries(m.pod)
        \o EnhancedSeries(METRICS_CATEGORIES, m)

NoSamples(m) == \A k \in DOMAIN AllSeries(m) : AllSeries(m)[k] = <<>>

\* position of a column in the header of the written file, 0 if absent
HeaderPos(column) ==
    IF \E h \in DOMAIN csv_file.headers : csv_file.headers[h] = column
    THEN CHOOSE h \in DOMAIN csv_file.headers : csv_file.headers[h] = column
    ELSE 0

\* C1: for every run whose grid is not empty, process_metrics produces a
\* matrix with exactly one row per grid timestamp.
C1_OneRowPerGridTimestamp ==
    (Ended /\ timestamps # <<>>) =>
        /\ pc = "done"
        /\ csv_file.written
        /\ Len(csv_file.lines) = Len(timestamps)

EventColumns ==
    { "event_normal_count", "event_warning_count", "event_error_count",
      "event_reason_killing", "event_reason_created", "event_reason_started",
      "event_reason_backoff", "event_reason_failed", "event_reason_unhealthy" }

RECURSIVE FirstNonEmpty(_)
FirstNonEmpty(series) ==
    IF series = <<>>
    THEN <<>>
    ELSE IF Head(series) # <<>> THEN Head(series) ELSE FirstNonEmpty(Tail(series))

\* C9: the grid is the timestamp sequence of the first series with a sample;
\* whenever a series of the run has a sample, the grid is not empty.
C9_FirstNonEmptySeriesIsGrid ==
    pc # "start" =>
        timestamps = EntryTimestamps(FirstNonEmpty(AllSeries(metrics)))

NodeNamed(metric_name, metric_data) ==
    [k \in DOMAIN metric_data |->
        <<NodeColumn(metric_name, metric_data[k][1]), metric_data[k][2]>>]

PodNamed(metric_name, metric_data) ==
    [k \in DOMAIN metric_data |->
        <<PodColumn(metric_name, metric_data[k][1]), metric_data[k][2]>>]

RECURSIVE NodeNamedSeries(_)
NodeNamedSeries(node_metrics) ==
    IF node_metrics = <<>>
    THEN <<>>
    ELSE NodeNamed(Head(node_metrics)[1], Head(node_metrics)[2])
             \o NodeNamedSeries(Tail(node_metrics))

RECURSIVE PodNamedSeries(_)
PodNamedSeries(pod_metrics) ==
    IF pod_metrics = <<>>
    THEN <<>>
    ELSE PodNamed(Head(pod_metrics)[1], Head(pod_metrics)[2])
             \o PodNamedSeries(Tail(pod_metrics))

RECURSIVE CategoryNamedSeries(_, _)
CategoryNamedSeries(category, category_metrics) ==
    IF category_metrics = <<>>
    THEN <<>>
    ELSE LET metric_name == Head(category_metrics)[1]
             metric_data == Head(category_metrics)[2]
         IN  (IF metric_data.kind = "dict"
              THEN [k \in DOMAIN metric_data.items |->
                       <<ItemColumn(category, metric_name, metric_data.items[k][1]),
                         metric_data.items[k][2]>>]
              ELSE << <<ListColumn(category, metric_name), metric_data.items>> >>)
             \o CategoryNamedSeries(category, Tail(category_metrics))

RECURSIVE EnhancedNamedSeries(_, _)
EnhancedNamedSeries(categories, m) ==
    IF categories = <<>>
    THEN <<>>
    ELSE (IF Head(categories) \notin {"node", "pod"} /\ HasKey(m.enhanced, Head(categories))
          THEN CategoryNamedSeries(Head(categories),
                                   Get(m.enhanced, Head(categories), <<>>))
          ELSE <<>>)
         \o EnhancedNamedSeries(Tail(categories), m)

\* every series of the run as <<column, series>>, in the order of the row loop
NamedSeries(m) ==
    NodeNamedSeries(m.node) \o PodNamedSeries(m.pod)
        \o EnhancedNamedSeries(METRICS_CATEGORIES, m)

NaN == [t |-> "nan", n |-> 0, s |-> ""]

\* the name pattern of line 137: processed_metrics_*.csv
GlobPrefix == "processed_metrics_"

Matches(file) == file.name.prefix = GlobPrefix

\* glob.glob (line 137)
Glob(dir) == SelectSeq(dir, Matches)

\* pd.read_csv turns an empty field into NaN
ReadCell(cell) == IF cell = EmptyCell THEN NaN ELSE cell

\* pd.read_csv(file, parse_dates=True, index_col=0) (line 148), for the
\* f-th file: the first column is the index
read_csv(content, f) ==
    [ columns |-> Tail(content.headers),
      rows |-> [r \in DOMAIN content.lines |->
                  [ index |-> content.lines[r][1],
                    cells |-> [c \in 1..(Len(content.headers) - 1) |->
                                  ReadCell(content.lines[r][c + 1])],
                    origin |-> <<f, r>> ]] ]

HasColumn(df, column) == \E c \in DOMAIN df.columns : df.columns[c] = column

ColumnPos(df, column) == CHOOSE c \in DOMAIN df.columns : df.columns[c] = column

\* columns of the frames in order of first appearance
RECURSIVE UnionColumns(_, _)
UnionColumns(columns, frames) ==
    IF frames = <<>>
    THEN columns
    ELSE LET new == SelectSeq(Head(frames).columns,
                              LAMBDA c : \A k \in DOMAIN columns : columns[k] # c)
         IN  UnionColumns(columns \o new, Tail(frames))

\* the rows of df over the given columns, NaN where df has no such column
Reindex(df, columns) ==
    [r \in DOMAIN df.rows |->
        [ index |-> df.rows[r].index,
          cells |-> [c \in DOMAIN columns |->
                        IF HasColumn(df, columns[c])
                        THEN df.rows[r].cells[ColumnPos(df, columns[c])]
                        ELSE NaN],
          origin |-> df.rows[r].origin ]]

RECURSIVE ConcatRows(_, _)
ConcatRows(frames, columns) ==
    IF frames = <<>>
    THEN <<>>
    ELSE Reindex(Head(frames), columns) \o ConcatRows(Tail(frames), columns)

\* concat keeping only the columns every frame has (join="inner")
ConcatInner(frames) ==
    LET columns == SelectSeq(UnionColumns(<<>>, frames),
                             LAMBDA c : \A f \in DOMAIN frames : HasColumn(frames[f], c))
    IN  [columns |-> columns, rows |-> ConcatRows(frames, columns)]

\* pd.concat(all_data, axis=0) (line 151): join="outer"
concat(frames) ==
    LET columns == UnionColumns(<<>>, frames)
    IN  [columns |-> columns, rows |-> ConcatRows(frames, columns)]

\* df.sample(frac=1.0, random_state=42) (line 154): the rows in the order the
\* seeded generator draws them, one permutation of the positions
Reorder(df, order) ==
    [columns |-> df.columns, rows |-> [k \in DOMAIN df.rows |-> df.rows[order[k]]]]

\* round(n * split) of Python: to the nearest integer, halves to the even one
RoundHalfEven(num, den) ==
    LET q == num \div den
        r == num % den
    IN  IF 2 * r < den THEN q
        ELSE IF 2 * r > den THEN q + 1
        ELSE IF q % 2 = 0 THEN q ELSE q + 1

\* test_size computed by rounding
TestSizeRounded(n, split) == RoundHalfEven(n * split, SplitUnits)

\* int(len(combined_df) * test_split) (line 157): int() truncates
TestSize(n, split) == (n * split) \div SplitUnits

\* df.iloc[a:b]
iloc(df, from, to) ==
    [columns |-> df.columns, rows |-> SubSeq(df.rows, from + 1, to)]

\* combined_df['cluster_issue_type'].value_counts() (line 174): NaN is not
\* counted
value_counts(df, column) ==
    LET pos == ColumnPos(df, column)
        values == {df.rows[r].cells[pos] : r \in DOMAIN df.rows} \ {NaN}
    IN  { <<v, Cardinality({r \in DOMAIN df.rows : df.rows[r].cells[pos] = v})>> :
          v \in values }

(***************************************************************************)
(* Inputs of generate_datasets: persisted matrices in the per-run layout,  *)
(* timestamp first, label last.                                            *)
(***************************************************************************)
MatrixFile(columns, label_column, label, n) ==
    [ headers |-> <<"timestamp">> \o columns \o <<label_column>>,
      lines |-> [r \in 1..n |->
                    << strftime(30 * r) >>
                    \o [c \in DOMAIN columns |-> Num(10 * c + r)]
                    \o << Str(label) >>] ]

\* a node-metric matrix of a resource run and a pod-metric matrix of a
\* baseline run, labelled under either column name
MatrixFiles ==
    { MatrixFile(sh[1], lc, sh[2], n) :
      sh \in { << <<"node_cpu_usage">>, "resource" >>,
               << <<"pod_cpu_usage_default_p1">>, "none" >> },
      lc \in {"cluster_issue_type", LabelColumn},
      n \in 1..MaxRows }

\* a file of zero bytes: pd.read_csv raises EmptyDataError on it
EmptyFile == [headers |-> <<>>, lines |-> <<>>]

Unreadable(content) == content.headers = <<>>

RECURSIVE TotalLines(_)
TotalLines(dir) ==
    IF dir = <<>> THEN 0 ELSE Len(Head(dir).content.lines) + TotalLines(Tail(dir))

\* the directories of at most n files and at most MaxRows lines in all
RECURSIVE Directories(_)
Directories(n) ==
    IF n = 0
    THEN { <<>> }
    ELSE Directories(n - 1) \cup
         UNION { { Append(d, [name |-> [prefix |-> GlobPrefix, stamp |-> Len(d) + 1],
                              content |-> c]) :
                   c \in {x \in MatrixFiles \cup {EmptyFile} :
                            Len(x.lines) + TotalLines(d) <= MaxRows} } :
                 d \in {x \in Directories(n - 1) : Len(x) = n - 1} }

\* lines 274-275: datetime.now().strftime("%Y%m%d_%H%M%S") in
\* f"data/processed/metrics_{timestamp}.csv": the clock in whole seconds
OutputName(clock) == [prefix |-> "metrics_", stamp |-> clock \div TicksPerSecond]

\* the same files under the names process_metrics gives them, one second apart
ProducerNamed(dir) ==
    [k \in DOMAIN dir |-> [dir[k] EXCEPT !.name = OutputName(TicksPerSecond * k)]]

DatasetInit ==
    /\ CollectorIdle
    /\ EventsIdle
    /\ RunsIdle
    /\ BatchIdle
    /\ ApiIdle
    /\ data_dir \in Directories(MaxFiles)
                      \cup {ProducerNamed(d) : d \in Directories(MaxFiles)}
    /\ test_split \in 0..SplitUnits
    /\ gpc = "start"
    /\ csv_files = <<>>
    /\ all_data = <<>>
    /\ combined_df = NoFrame
    /\ train_df = NoFrame
    /\ test_df = NoFrame
    /\ issue_counts = {}
    /\ greturned = ""

\* lines 134-143: without a matching file generate_datasets returns None
FindFiles ==
    /\ gpc = "start"
    /\ csv_files' = Glob(data_dir)
    /\ IF Glob(data_dir) = <<>>
       THEN gpc' = "done" /\ greturned' = "None"
       ELSE gpc' = "read" /\ greturned' = greturned
    /\ UNCHANGED <<data_dir, test_split, all_data, combined_df, train_df,
                   test_df, issue_counts>>
    /\ UNCHANGED <<collector_vars, events_vars, runs_vars, batch_vars, api_vars>>

\* lines 147-149: one pass of the reading loop; nothing catches what
\* pd.read_csv raises
ReadFile ==
    /\ gpc = "read"
    /\ Len(all_data) < Len(csv_files)
    /\ LET file == csv_files[Len(all_data) + 1]
       IN  IF Unreadable(file.content)
           THEN /\ gpc' = "raised"
                /\ greturned' = "EmptyDataError"
                /\ UNCHANGED all_data
           ELSE /\ all_data' = Append(all_data,
                                      read_csv(file.content, Len(all_data) + 1))
                /\ UNCHANGED <<gpc, greturned>>
    /\ UNCHANGED <<data_dir, test_split, csv_files, combined_df, train_df,
                   test_df, issue_counts>>
    /\ UNCHANGED <<collector_vars, events_vars, runs_vars, batch_vars, api_vars>>

\* line 151
Combine ==
    /\ gpc = "read"
    /\ Len(all_data) = Len(csv_files)
    /\ combined_df' = concat(all_data)
    /\ gpc' = "shuffle"
    /\ UNCHANGED <<data_dir, test_split, csv_files, all_data, train_df,
                   test_df, issue_counts, greturned>>
    /\ UNCHANGED <<collector_vars, events_vars, runs_vars, batch_vars, api_vars>>

\* line 154
Shuffle ==
    /\ gpc = "shuffle"
    /\ \E order \in Permutations(DOMAIN combined_df.rows) :
          combined_df' = Reorder(combined_df, order)
    /\ gpc' = "split"
    /\ UNCHANGED <<data_dir, test_split, csv_files, all_data, train_df,
                   test_df, issue_counts, greturned>>
    /\ UNCHANGED <<collector_vars, events_vars, runs_vars, batch_vars, api_vars>>

\* SplitAndSave with the training set starting one row late
SplitAndSaveDropsRow ==
    /\ gpc = "split"
    /\ LET test_size == TestSize(Len(combined_df.rows), test_split)
       IN  /\ train_df' = iloc(combined_df, test_size + 1, Len(combined_df.rows))
           /\ test_df' = iloc(combined_df, 0, test_size)
    /\ gpc' = "stats"
    /\ UNCHANGED <<data_dir, test_split, csv_files, all_data, combined_df,
                   issue_counts, greturned>>
    /\ UNCHANGED <<collector_vars, events_vars, runs_vars, batch_vars, api_vars>>

\* lines 156-170: split by position and save both parts
SplitAndSave ==
    /\ gpc = "split"
    /\ LET test_size == TestSize(Len(combined_df.rows), test_split)
       IN  /\ train_df' = iloc(combined_df, test_size, Len(combined_df.rows))
           /\ test_df' = iloc(combined_df, 0, test_size)
    /\ gpc' = "stats"
    /\ UNCHANGED <<data_dir, test_split, csv_files, all_data, combined_df,
                   issue_counts, greturned>>
    /\ UNCHANGED <<collector_vars, events_vars, runs_vars, batch_vars, api_vars>>

\* lines 172-178: the label column must exist in the combined frame
Statistics ==
    /\ gpc = "stats"
    /\ IF HasColumn(combined_df, "cluster_issue_type")
       THEN /\ issue_counts' = value_counts(combined_df, "cluster_issue_type")
            /\ gpc' = "done"
            /\ greturned' = "train_file, test_file"
       ELSE /\ issue_counts' = issue_counts
            /\ gpc' = "raised"
            /\ greturned' = "KeyError"
    /\ UNCHANGED <<data_dir, test_split, csv_files, all_data, combined_df,
                   train_df, test_df>>
    /\ UNCHANGED <<collector_vars, events_vars, runs_vars, batch_vars, api_vars>>

DatasetNext ==
    \/ FindFiles
    \/ ReadFile
    \/ Combine
    \/ Shuffle
    \/ SplitAndSave
    \/ Statistics

DatasetSpec == DatasetInit /\ [][DatasetNext]_vars

(***************************************************************************)
(* Properties of generate_datasets.                                        *)
(***************************************************************************)
\* the split has been made
SplitDone ==
    /\ gpc \in {"stats", "done", "raised"}
    /\ csv_files # <<>>
    /\ greturned # "EmptyDataError"

\* the frames have been combined
Combined ==
    /\ gpc \in {"shuffle", "split", "stats", "done", "raised"}
    /\ greturned # "EmptyDataError"

\* C7 as stated: the test set has exactly round(f * N) rows; f = 0 gives an
\* empty test set and f = 1 an empty training set.
C7_TestSizeRounded ==
    SplitDone =>
        /\ Len(test_df.rows) = RoundHalfEven(Len(combined_df.rows) * test_split, SplitUnits)
        /\ test_split = 0 => test_df.rows = <<>>
        /\ test_split = SplitUnits => train_df.rows = <<>>

\* C7 amended: the test set has exactly int(f * N) rows, the product
\* truncated, never rounded up; f = 0 gives an empty test set and f = 1 an
\* empty training set.
C7_TestSizeTruncated ==
    SplitDone =>
        /\ SplitUnits * Len(test_df.rows) <= Len(combined_df.rows) * test_split
        /\ SplitUnits * (Len(test_df.rows) + 1) > Len(combined_df.rows) * test_split
        /\ test_split = 0 => test_df.rows = <<>>
        /\ test_split = SplitUnits => train_df.rows = <<>>

\* f * N has a fractional part of one half or more: rounding and truncation
\* differ
C7_Witness ==
    /\ SplitDone
    /\ 2 * ((Len(combined_df.rows) * test_split) % SplitUnits) >= SplitUnits
    /\ Len(test_df.rows) > 0

RECURSIVE RowCount(_)
RowCount(frames) ==
    IF frames = <<>> THEN 0 ELSE Len(Head(frames).rows) + RowCount(Tail(frames))

ReadableFiles == SelectSeq(csv_files, LAMBDA file : ~Unreadable(file.content))

\* generate_datasets has ended, having found files
DatasetEnded == gpc \in {"done", "raised"} /\ csv_files # <<>>

\* C11: an unreadable file among the persisted matrices is skipped; the
\* other files are still combined and split into the two outputs.
C11_BadFileSkipped ==
    (DatasetEnded /\ ReadableFiles # <<>>) =>
        /\ greturned # "EmptyDataError"
        /\ Len(combined_df.rows) = TotalLines(ReadableFiles)
        /\ Len(train_df.rows) + Len(test_df.rows) = TotalLines(ReadableFiles)

RECURSIVE SumCounts(_)
SumCounts(counts) ==
    IF counts = {}
    THEN 0
    ELSE LET c == CHOOSE x \in counts : TRUE
         IN  c[2] + SumCounts(counts \ {c})

\* C12: generate_datasets reports for every label value the number of
\* combined rows carrying it; every combined row is counted under exactly one
\* reported label, so the counts sum to the number of combined rows.
C12_CountsCoverAllRows ==
    (DatasetEnded /\ Combined) =>
        /\ gpc = "done"
        /\ SumCounts(issue_counts) = Len(combined_df.rows)
        /\ \A k \in DOMAIN combined_df.rows :
              \E c \in issue_counts :
                  combined_df.rows[k].cells[ColumnPos(combined_df, "cluster_issue_type")] = c[1]

Origins(df) == {df.rows[k].origin : k \in DOMAIN df.rows}

\* C19: the test set is the first rows of the shuffled sequence and the
\* training set the remaining ones: the two share no row, together they hold
\* every row of every matrix read exactly once, and their sizes add up to the
\* number of combined rows.
C19_SplitByPosition ==
    SplitDone =>
        /\ test_df.rows \o train_df.rows = combined_df.rows
        /\ Origins(test_df) \cap Origins(train_df) = {}
        /\ Cardinality(Origins(test_df)) = Len(test_df.rows)
        /\ Cardinality(Origins(train_df)) = Len(train_df.rows)
        /\ Origins(test_df) \cup Origins(train_df)
             = UNION { {<<f, r>> : r \in DOMAIN all_data[f].rows} : f \in DOMAIN all_data }
        /\ Len(train_df.rows) + Len(test_df.rows) = RowCount(all_data)

\* both parts are non-empty and the shuffle moved the first row
C19_Witness ==
    /\ SplitDone
    /\ test_df.rows # <<>>
    /\ train_df.rows # <<>>
    /\ test_df.rows[1].origin # <<1, 1>>

(***************************************************************************)
(* process_events on a DatetimeIndex (collector.py lines 365-411).         *)
(* A timestamp is [wall, aware, offset]: the wall-clock reading in ticks   *)
(* and, when it is timezone-aware, the UTC offset of its zone.             *)
(***************************************************************************)
\* largest label of an index
MaxStamp == 4

\* most labels of an index
MaxGrid == 3

\* most events of a list
MaxEvents == 2

\* ticks per hour of UTC offset
TicksPerHour == 2

\* an ISO-8601 text: the wall-clock reading and the zone suffix
IsoText(wall, zone) == [given |-> TRUE, ticks |-> wall, zone |-> zone, parses |-> TRUE]

\* a text that is no ISO-8601 timestamp
BadText == [given |-> TRUE, ticks |-> 0, zone |-> "", parses |-> FALSE]

\* line 388: .replace("Z", "+00:00")
ReplaceZ(text) == [text EXCEPT !.zone = IF @ = "Z" THEN "+00:00" ELSE @]

\* the texts datetime.fromisoformat accepts; it raises ValueError on the others
Parses(text) == text.parses /\ text.zone \in {"", "+00:00", "+01:00"}

UtcOffset(zone) == IF zone = "+01:00" THEN TicksPerHour ELSE 0

\* lines 388-389: datetime.fromisoformat, pd.Timestamp
fromisoformat(text) ==
    [wall |-> text.ticks, aware |-> text.zone # "", offset |-> UtcOffset(text.zone)]

\* Timestamp.tz_localize: the wall-clock reading is kept, the zone is set or
\* taken away
tz_localize(ts, aware, offset) ==
    [wall |-> ts.wall, aware |-> aware, offset |-> IF aware THEN offset ELSE 0]

\* Reconcile without the branch that makes an aware event naive
ReconcileLocalizeOnly(index, event_time_ts) ==
    IF index.aware /\ ~event_time_ts.aware
    THEN tz_localize(event_time_ts, TRUE, index.offset)
    ELSE event_time_ts

\* lines 392-397
Reconcile(index, event_time_ts) ==
    IF index.aware
    THEN IF ~event_time_ts.aware
         THEN tz_localize(event_time_ts, TRUE, index.offset)
         ELSE event_time_ts
    ELSE IF event_time_ts.aware
         THEN tz_localize(event_time_ts, FALSE, 0)
         ELSE event_time_ts

\* the instant of a timestamp on the UTC line (the wall-clock line if naive)
Instant(ts) == ts.wall - ts.offset

Abs(x) == IF x < 0 THEN 0 - x ELSE x

\* line 401: np.abs(index - event_time_ts)
Distances(index, event_time_ts) ==
    [i \in DOMAIN index.stamps |->
        Abs((index.stamps[i] - index.offset) - Instant(event_time_ts))]

\* argmin returning the last of the smallest entries
ArgminLast(d) ==
    CHOOSE i \in DOMAIN d : \A j \in DOMAIN d : d[i] < d[j] \/ (d[i] = d[j] /\ j <= i)

\* numpy argmin: the first of the smallest entries
argmin(d) ==
    CHOOSE i \in DOMAIN d : \A j \in DOMAIN d : d[i] < d[j] \/ (d[i] = d[j] /\ i <= j)

\* line 371
event_types == <<"Normal", "Warning", "Error">>

\* line 376
event_reasons == <<"Killing", "Created", "Started", "BackOff", "Failed", "Unhealthy">>

\* str.lower on the tracked names
Lower(name) ==
    CASE name = "Normal" -> "normal"
      [] name = "Warning" -> "warning"
      [] name = "Error" -> "error"
      [] name = "Killing" -> "killing"
      [] name = "Created" -> "created"
      [] name = "Started" -> "started"
      [] name = "BackOff" -> "backoff"
      [] name = "Failed" -> "failed"
      [] name = "Unhealthy" -> "unhealthy"

\* lines 373, 405
TypeColumn(event_type) == "event_" \o Lower(event_type) \o "_count"

\* lines 378, 409
ReasonColumn(reason) == "event_reason_" \o Lower(reason)

Tracked(names) == {names[k] : k \in DOMAIN names}

\* lines 368-378: every column 0 at every position of the index
NewEventFrame(index) ==
    [p \in DOMAIN index.stamps |->
        [c \in {TypeColumn(t) : t \in Tracked(event_types)}
                 \cup {ReasonColumn(r) : r \in Tracked(event_reasons)} |-> 0]]

\* event_df.at[label, column] = value: the rows carrying the label
SetAt(df, index, label, column, value) ==
    [p \in DOMAIN df |->
        IF index.stamps[p] = label THEN [df[p] EXCEPT ![column] = value] ELSE df[p]]

\* event_df.at[label, column] += 1
IncrementAt(df, index, label, column) ==
    [p \in DOMAIN df |->
        IF index.stamps[p] = label THEN [df[p] EXCEPT ![column] = @ + 1] ELSE df[p]]

\* lines 404-405
CountType(df, index, label, event_type) ==
    IF event_type \in Tracked(event_types)
    THEN IncrementAt(df, index, label, TypeColumn(event_type))
    ELSE df

\* MarkReason adding one to the indicator instead of setting it
MarkReasonAdds(df, index, label, reason) ==
    IF reason \in Tracked(event_reasons)
    THEN IncrementAt(df, index, label, ReasonColumn(reason))
    ELSE df

\* lines 408-409
MarkReason(df, index, label, reason) ==
    IF reason \in Tracked(event_reasons)
    THEN SetAt(df, index, label, ReasonColumn(reason), 1)
    ELSE df

\* an index of ascending labels: naive, in UTC or one hour east of it
Indexes ==
    { [stamps |-> st, aware |-> z[1], offset |-> z[2]] :
      st \in { q \in UNION { [1..n -> 0..MaxStamp] : n \in 0..MaxGrid } :
               \A i, j \in DOMAIN q : i < j => q[i] < q[j] },
      z \in { <<FALSE, 0>>, <<TRUE, 0>>, <<TRUE, TicksPerHour>> } }

\* event records: tracked and untracked types and reasons; timestamps naive,
\* with the Z suffix, with an offset, absent and unparseable
EventPool ==
    { Event("Normal", "Created", IsoText(1, "")),
      Event("Warning", "BackOff", IsoText(3, "Z")),
      Event("Warning", "Killing", IsoText(2, "+01:00")),
      Event("Error", "Scheduled", IsoText(MaxStamp, "")),
      Event("Unknown", "Failed", IsoText(0, "+00:00")),
      Event("Unknown", "Scheduled", IsoText(2, "")),
      Event("Normal", "Started", NoTimestamp),
      Event("Warning", "Unhealthy", BadText) }

EventsInit ==
    /\ CollectorIdle
    /\ DatasetIdle
    /\ RunsIdle
    /\ BatchIdle
    /\ ApiIdle
    /\ event_index \in Indexes
    /\ event_list \in UNION { [1..n -> EventPool] : n \in 0..MaxEvents }
    /\ event_df = <<>>
    /\ event_pos = 0
    /\ nearest_idx = -1
    /\ epc = "start"
    /\ ereturned = ""

\* lines 368-378
CreateFrame ==
    /\ epc = "start"
    /\ event_df' = NewEventFrame(event_index)
    /\ epc' = "loop"
    /\ UNCHANGED <<event_index, event_list, event_pos, nearest_idx, ereturned>>
    /\ UNCHANGED <<collector_vars, dataset_vars, runs_vars, batch_vars, api_vars>>

\* lines 381-409: one pass of the loop over the events
BinEvent ==
    /\ epc = "loop"
    /\ event_pos < Len(event_list)
    /\ LET event == event_list[event_pos + 1]
           text == ReplaceZ(event.last_timestamp)
           event_time_ts == Reconcile(event_index, fromisoformat(text))
           skip == /\ event_pos' = event_pos + 1
                   /\ UNCHANGED <<event_df, nearest_idx, epc, ereturned>>
           raise(error) == /\ epc' = "raised"
                           /\ ereturned' = error
                           /\ UNCHANGED <<event_df, nearest_idx, event_pos>>
       IN  IF ~event.last_timestamp.given
           THEN skip
           ELSE IF ~Parses(text)
           THEN raise("ValueError")
           ELSE IF event_index.stamps = <<>>
           THEN skip
           ELSE IF event_index.aware # event_time_ts.aware
           THEN raise("TypeError")
           ELSE LET label == event_index.stamps[
                                 argmin(Distances(event_index, event_time_ts))]
                IN  /\ nearest_idx' = label
                    /\ event_df' = MarkReason(
                                       CountType(event_df, event_index, label, event.type),
                                       event_index, label, event.reason)
                    /\ event_pos' = event_pos + 1
                    /\ UNCHANGED <<epc, ereturned>>
    /\ UNCHANGED <<event_index, event_list>>
    /\ UNCHANGED <<collector_vars, dataset_vars, runs_vars, batch_vars, api_vars>>

\* line 411
ReturnFrame ==
    /\ epc = "loop"
    /\ event_pos = Len(event_list)
    /\ epc' = "done"
    /\ ereturned' = "event_df"
    /\ UNCHANGED <<event_index, event_list, event_df, event_pos, nearest_idx>>
    /\ UNCHANGED <<collector_vars, dataset_vars, runs_vars, batch_vars, api_vars>>

EventsNext ==
    \/ CreateFrame
    \/ BinEvent
    \/ ReturnFrame

EventsSpec == EventsInit /\ [][EventsNext]_vars

EventsTypeOK ==
    /\ epc \in {"idle", "start", "loop", "done", "raised"}
    /\ event_pos \in 0..Len(event_list)
    /\ ereturned \in {"", "event_df", "ValueError", "TypeError"}

(***************************************************************************)
(* Properties of process_events.                                           *)
(***************************************************************************)
\* the event has a timestamp that can be read
Usable(event) ==
    /\ event.last_timestamp.given
    /\ Parses(ReplaceZ(event.last_timestamp))

\* the timestamp of the event as it is compared with the index
EventTime(event) ==
    Reconcile(event_index, fromisoformat(ReplaceZ(event.last_timestamp)))

\* the event taken last has been binned
BinnedLast ==
    /\ epc \in {"loop", "done", "raised"}
    /\ event_pos > 0
    /\ Usable(event_list[event_pos])
    /\ event_index.stamps # <<>>

\* C14: for an event with a usable timestamp and a non-empty grid the
\* selected position has the minimum absolute distance to the event
\* timestamp, and of two equally near positions the first in grid order is
\* the selected one.
C14_NearestFirst ==
    BinnedLast =>
        LET d == Distances(event_index, EventTime(event_list[event_pos]))
        IN  \E p \in DOMAIN event_index.stamps :
                /\ event_index.stamps[p] = nearest_idx
                /\ \A j \in DOMAIN d : d[p] <= d[j]
                /\ \A j \in DOMAIN d : j < p => d[j] > d[p]

\* an event halfway between two labels went to the earlier one
C14_Witness ==
    /\ BinnedLast
    /\ LET d == Distances(event_index, EventTime(event_list[event_pos]))
       IN  \E p, q \in DOMAIN d :
               /\ p < q
               /\ d[p] = d[q]
               /\ d[p] > 0
               /\ \A j \in DOMAIN d : d[p] <= d[j]
               /\ event_index.stamps[p] = nearest_idx

\* the positions of the index carrying a label
PositionsOf(label) == {p \in DOMAIN event_index.stamps : event_index.stamps[p] = label}

\* the columns an event may change
ColumnsOf(event) ==
    (IF event.type \in Tracked(event_types) THEN {TypeColumn(event.type)} ELSE {})
    \cup (IF event.reason \in Tracked(event_reasons) THEN {ReasonColumn(event.reason)} ELSE {})

\* C15: binning one event changes at most two cells, both at the selected
\* position: the count of its type goes up by one exactly if the type is
\* tracked, the indicator of its reason becomes 1 exactly if the reason is
\* tracked, and an event with neither tracked changes nothing and raises
\* nothing.
C15_AtMostTwoCells ==
    [][ (/\ epc = "loop"
         /\ event_pos < Len(event_list)
         /\ Usable(event_list[event_pos + 1])
         /\ event_index.stamps # <<>>) =>
            LET event == event_list[event_pos + 1]
            IN  /\ epc' = "loop"
                /\ event_pos' = event_pos + 1
                /\ Cardinality(PositionsOf(nearest_idx')) = 1
                /\ \A q \in DOMAIN event_df : \A c \in DOMAIN event_df[q] :
                      event_df'[q][c] # event_df[q][c] =>
                          q \in PositionsOf(nearest_idx') /\ c \in ColumnsOf(event)
                /\ \A q \in PositionsOf(nearest_idx') :
                      /\ event.type \in Tracked(event_types) =>
                            event_df'[q][TypeColumn(event.type)]
                                = event_df[q][TypeColumn(event.type)] + 1
                      /\ event.reason \in Tracked(event_reasons) =>
                            event_df'[q][ReasonColumn(event.reason)] = 1
      ]_vars

\* two events of one tracked type and reason went to one position: the count
\* is 2, the indicator 1
C15_Witness ==
    /\ epc = "done"
    /\ Len(event_list) = 2
    /\ event_list[1] = event_list[2]
    /\ BinnedLast
    /\ event_list[1].type \in Tracked(event_types)
    /\ event_list[1].reason \in Tracked(event_reasons)
    /\ \E p \in PositionsOf(nearest_idx) :
          /\ event_df[p][TypeColumn(event_list[1].type)] = 2
          /\ event_df[p][ReasonColumn(event_list[1].reason)] = 1

EventsEnded == epc \in {"done", "raised"}

\* C16: an event whose last_timestamp is absent or cannot be parsed is
\* skipped without raising, and the other events of the list are binned:
\* process_events takes the whole list and returns the frame.
C16_BadTimestampSkipped ==
    EventsEnded =>
        /\ epc = "done"
        /\ ereturned = "event_df"
        /\ event_pos = Len(event_list)

\* C21: when the distance is computed the event timestamp and the grid have
\* the same timezone-awareness, in all four combinations: a naive event is
\* localized to the zone of an aware grid and an aware event is made naive
\* for a naive grid, the wall-clock reading kept; the subtraction never sees
\* a naive and an aware operand.
C21_SameAwareness ==
    /\ ereturned # "TypeError"
    /\ BinnedLast =>
          LET raw == fromisoformat(ReplaceZ(event_list[event_pos].last_timestamp))
              event_time_ts == EventTime(event_list[event_pos])
          IN  /\ event_time_ts.aware = event_index.aware
              /\ event_time_ts.wall = raw.wall
              /\ (event_index.aware /\ ~raw.aware) =>
                    event_time_ts.offset = event_index.offset
              /\ (event_index.aware /\ raw.aware) => event_time_ts = raw
              /\ (~event_index.aware /\ ~raw.aware) => event_time_ts = raw

\* a naive and an aware event have both been binned on an aware grid east of
\* UTC
C21_Witness ==
    /\ epc = "done"
    /\ event_index.stamps # <<>>
    /\ event_index.aware
    /\ event_index.offset # 0
    /\ Len(event_list) = 2
    /\ Usable(event_list[1])
    /\ Usable(event_list[2])
    /\ event_list[1].last_timestamp.zone = ""
    /\ event_list[2].last_timestamp.zone # ""

\* sum of a column over the positions 1..n
RECURSIVE SumColumn(_, _)
SumColumn(column, n) ==
    IF n = 0 THEN 0 ELSE event_df[n][column] + SumColumn(column, n - 1)

\* the events of a type that have a last_timestamp
EventsOfType(event_type) ==
    {k \in DOMAIN event_list :
        event_list[k].type = event_type /\ event_list[k].last_timestamp.given}

\* C29: with a non-empty grid the counts are conserved: when process_events
\* has ended, the sum over the positions of event_<T>_count is the number of
\* events of tracked type T that have a last_timestamp, and every
\* event_reason_* cell is 0 or 1.
C29_CountsConserved ==
    (EventsEnded /\ event_index.stamps # <<>>) =>
        /\ \A t \in Tracked(event_types) :
              SumColumn(TypeColumn(t), Len(event_df)) = Cardinality(EventsOfType(t))
        /\ \A p \in DOMAIN event_df : \A r \in Tracked(event_reasons) :
              event_df[p][ReasonColumn(r)] \in {0, 1}

\* the same for the calls that return the frame
CountsConservedOnReturn ==
    (epc = "done" /\ event_index.stamps # <<>>) =>
        /\ \A t \in Tracked(event_types) :
              SumColumn(TypeColumn(t), Len(event_df)) = Cardinality(EventsOfType(t))
        /\ \A p \in DOMAIN event_df : \A r \in Tracked(event_reasons) :
              event_df[p][ReasonColumn(r)] \in {0, 1}

(***************************************************************************)
(* Several process_metrics calls, in one process or in several, writing to *)
(* one data/processed directory (collector.py lines 259-363).  A matrix is *)
(* told apart by the call that wrote it and its label.                     *)
(***************************************************************************)
\* last reading of the wall clock, in ticks
MaxClock == 3

\* number of process_metrics calls
MaxRuns == 2

Runners == 1..MaxRuns

\* no output file name yet
NoName == [prefix |-> "", stamp |-> -1]

RunsInit ==
    /\ CollectorIdle
    /\ DatasetIdle
    /\ EventsIdle
    /\ BatchIdle
    /\ ApiIdle
    /\ now = 0
    /\ run_pc = [r \in Runners |-> "start"]
    /\ run_label \in [Runners -> IssueTypes]
    /\ run_rows \in [Runners -> BOOLEAN]
    /\ output_file = [r \in Runners |-> NoName]
    /\ processed_dir = {}

\* the wall clock advances
Tick ==
    /\ now < MaxClock
    /\ now' = now + 1
    /\ UNCHANGED <<run_pc, run_label, run_rows, output_file, processed_dir>>
    /\ UNCHANGED <<collector_vars, dataset_vars, events_vars, batch_vars, api_vars>>

\* lines 263-277: load the raw file, name the output file after the clock
NameOutput(r) ==
    /\ run_pc[r] = "start"
    /\ output_file' = [output_file EXCEPT ![r] = OutputName(now)]
    /\ run_pc' = [run_pc EXCEPT ![r] = "named"]
    /\ UNCHANGED <<now, run_label, run_rows, processed_dir>>
    /\ UNCHANGED <<collector_vars, dataset_vars, events_vars, batch_vars, api_vars>>

\* lines 279-363: build the rows and, if there are any, open(output_file, "w"):
\* a file of that name is replaced
WriteOutput(r) ==
    /\ run_pc[r] = "named"
    /\ processed_dir' =
           IF run_rows[r]
           THEN {f \in processed_dir : f.name # output_file[r]}
                \cup {[name |-> output_file[r], writer |-> r, label |-> run_label[r]]}
           ELSE processed_dir
    /\ run_pc' = [run_pc EXCEPT ![r] = "done"]
    /\ UNCHANGED <<now, run_label, run_rows, output_file>>
    /\ UNCHANGED <<collector_vars, dataset_vars, events_vars, batch_vars, api_vars>>

RunsNext ==
    \/ Tick
    \/ \E r \in Runners : NameOutput(r)
    \/ \E r \in Runners : WriteOutput(r)

RunsSpec == RunsInit /\ [][RunsNext]_vars

\* C20: two calls, concurrent or back to back, never have the same output
\* file name, and no call's matrix is overwritten by another call: the file
\* of every finished call that had rows is still the one it wrote.
C20_DistinctOutputFiles ==
    /\ \A a, b \in Runners :
          (a # b /\ run_pc[a] # "start" /\ run_pc[b] # "start") =>
              output_file[a] # output_file[b]
    /\ \A a \in Runners :
          (run_pc[a] = "done" /\ run_rows[a]) =>
              \E f \in processed_dir : f.name = output_file[a] /\ f.writer = a

\* the directory is not empty and every file in it has a name as
\* process_metrics writes it
WrittenByProcessMetrics ==
    /\ data_dir # <<>>
    /\ \A k \in DOMAIN data_dir : \E clock \in 0..(TicksPerSecond * Len(data_dir)) :
          data_dir[k].name = OutputName(clock)

\* C25: every matrix file process_metrics persists is found by
\* generate_datasets: a directory holding only such files is never reported
\* as holding no processed files.
C25_ProducerFilesFound ==
    (WrittenByProcessMetrics /\ gpc # "start") =>
        /\ greturned # "None"
        /\ Len(csv_files) = Len(data_dir)

(***************************************************************************)
(* The batch loops: main and collect_scenario_data of                      *)
(* src/collect_training_data.py (lines 180-298) and run_complete_workflow  *)
(* of src/src/main.py (lines 143-207).  A line of a subprocess's stdout is *)
(* the sequence of its words.                                              *)
(***************************************************************************)
\* largest --iterations
MaxIterations == 2

\* a scenario with a simulation script, one run_simulation does not know and
\* the baseline
Scenarios == <<"resource", "dns", "none">>

Workflows == {"collect_training_data", "run_complete_workflow"}

\* run_simulation: collect_training_data.py lines 30-82, main.py lines 9-55,
\* which has no branch for "none"; returncode is that of the script
RunSimulationUnknownSucceeds(wf, scenario_type, returncode) ==
    IF scenario_type \in {"resource", "network", "pod-failure"}
    THEN returncode = 0
    ELSE TRUE

run_simulation(wf, scenario_type, returncode) ==
    IF scenario_type \in {"resource", "network", "pod-failure"}
    THEN returncode = 0
    ELSE IF wf = "collect_training_data" /\ scenario_type = "none"
         THEN TRUE
         ELSE FALSE

\* collector.py line 248
RawSavedLine == <<"Raw", "metrics", "saved", "to", "data/raw/metrics_0.json">>

\* collector.py line 359
ProcessedSavedLine ==
    <<"Processed", "metrics", "saved", "to", "data/processed/metrics_0.csv">>

\* collector.py line 361
NoDataLine == <<"No", "data", "to", "write!">>

\* collector.py line 459
CompleteLine == <<"Data", "collection", "and", "processing", "complete.">>

\* the ways the collector subprocess ends: with an exception, after writing
\* the matrix, after finding no data to write
CollectorExits ==
    { [launched |-> TRUE, returncode |-> 1, wrote |-> FALSE, stdout |-> <<RawSavedLine>>],
      [launched |-> TRUE, returncode |-> 0, wrote |-> TRUE,
       stdout |-> <<RawSavedLine, ProcessedSavedLine, CompleteLine>>],
      [launched |-> TRUE, returncode |-> 0, wrote |-> FALSE,
       stdout |-> <<RawSavedLine, NoDataLine, CompleteLine>>] }

\* collect_training_data.py line 120, main.py line 88
Marker == <<"Saved", "processed", "metrics", "to">>

\* marker in line
Contains(line, marker) ==
    \E k \in 1..(Len(line) - Len(marker) + 1) :
        SubSeq(line, k, k + Len(marker) - 1) = marker

\* line.split(marker)[-1].strip(): what follows the last occurrence
AfterMarker(line, marker) ==
    LET at == {k \in 1..(Len(line) - Len(marker) + 1) :
                   SubSeq(line, k, k + Len(marker) - 1) = marker}
        k == CHOOSE x \in at : \A y \in at : y <= x
    IN  SubSeq(line, k + Len(marker), Len(line))

\* lines 119-123: the path of the first line holding the marker, None (<<>>)
\* if there is none
RECURSIVE ExtractPath(_, _)
ExtractPath(stdout, marker) ==
    IF stdout = <<>>
    THEN <<>>
    ELSE IF Contains(Head(stdout), marker)
         THEN AfterMarker(Head(stdout), marker)
         ELSE ExtractPath(Tail(stdout), marker)

\* collect_metrics: collect_training_data.py lines 84-123 (with the
\* connection check of line 87), main.py lines 57-91 (without)
collect_metrics(wf, connected, exit) ==
    IF wf = "collect_training_data" /\ ~connected
    THEN <<>>
    ELSE IF exit.returncode # 0
         THEN <<>>
         ELSE ExtractPath(exit.stdout, Marker)

BatchInit ==
    /\ CollectorIdle
    /\ DatasetIdle
    /\ EventsIdle
    /\ RunsIdle
    /\ ApiIdle
    /\ workflow \in Workflows
    /\ iterations \in (IF workflow = "collect_training_data" THEN 1..MaxIterations ELSE {1})
    /\ skip_combine \in (IF workflow = "collect_training_data" THEN BOOLEAN ELSE {TRUE})
    /\ scenario_pos = 1
    /\ iteration = 1
    /\ bpc = "simulate"
    /\ success = FALSE
    /\ data_file = <<>>
    /\ all_data_files = <<>>
    /\ collector_exit = NoExit
    /\ simulated = {}
    /\ sim_succeeded = {}
    /\ collected = {}
    /\ trained = {}
    /\ combined = FALSE

\* the run of the loops now
ThisRun == <<scenario_pos, iteration>>

\* continue: the next iteration, the next scenario or the end of the loops
NextRun ==
    IF iteration < iterations
    THEN [pos |-> scenario_pos, it |-> iteration + 1, pc |-> "simulate"]
    ELSE IF scenario_pos < Len(Scenarios)
         THEN [pos |-> scenario_pos + 1, it |-> 1, pc |-> "simulate"]
         ELSE [pos |-> scenario_pos, it |-> iteration, pc |-> "finish"]

\* Simulate leaving the loops at the first failed simulation
SimulateAbortsOnFailure ==
    /\ bpc = "simulate"
    /\ \E returncode \in {0, 1} :
          LET ok == run_simulation(workflow, Scenarios[scenario_pos], returncode)
          IN  /\ success' = ok
              /\ simulated' = simulated \cup {ThisRun}
              /\ sim_succeeded' = IF ok THEN sim_succeeded \cup {ThisRun} ELSE sim_succeeded
              /\ IF ~ok
                 THEN /\ bpc' = "finish"
                      /\ UNCHANGED <<scenario_pos, iteration>>
                 ELSE /\ bpc' = "collect"
                      /\ UNCHANGED <<scenario_pos, iteration>>
    /\ UNCHANGED <<workflow, iterations, skip_combine, data_file, all_data_files,
                   collector_exit, collected, trained, combined>>
    /\ UNCHANGED <<collector_vars, dataset_vars, events_vars, runs_vars, api_vars>>

\* collect_training_data.py lines 200-223, main.py lines 150-163:
\* run_simulation, and continue if it failed
Simulate ==
    /\ bpc = "simulate"
    /\ \E returncode \in {0, 1} :
          LET ok == run_simulation(workflow, Scenarios[scenario_pos], returncode)
              skip == IF workflow = "collect_training_data"
                      THEN ~ok /\ Scenarios[scenario_pos] # "none"
                      ELSE ~ok
          IN  /\ success' = ok
              /\ simulated' = simulated \cup {ThisRun}
              /\ sim_succeeded' = IF ok THEN sim_succeeded \cup {ThisRun} ELSE sim_succeeded
              /\ IF skip
                 THEN /\ scenario_pos' = NextRun.pos
                      /\ iteration' = NextRun.it
                      /\ bpc' = NextRun.pc
                 ELSE /\ bpc' = "collect"
                      /\ UNCHANGED <<scenario_pos, iteration>>
    /\ UNCHANGED <<workflow, iterations, skip_combine, data_file, all_data_files,
                   collector_exit, collected, trained, combined>>
    /\ UNCHANGED <<collector_vars, dataset_vars, events_vars, runs_vars, api_vars>>

\* collect_training_data.py lines 225-243: collect_metrics, record the file,
\* wait; main.py lines 165-205: collect_metrics, continue without a file,
\* else train_model and predict, wait
Collect ==
    /\ bpc = "collect"
    /\ \E connected \in BOOLEAN, exit \in CollectorExits :
          LET launched == workflow = "run_complete_workflow" \/ connected
              file == collect_metrics(workflow, connected, exit)
          IN  /\ collector_exit' = IF launched THEN exit ELSE NoExit
              /\ data_file' = file
              /\ collected' = collected \cup {ThisRun}
              /\ all_data_files' =
                     IF workflow = "collect_training_data" /\ file # <<>>
                     THEN Append(all_data_files, file)
                     ELSE all_data_files
              /\ trained' =
                     IF workflow = "run_complete_workflow" /\ file # <<>>
                     THEN trained \cup {ThisRun}
                     ELSE trained
    /\ scenario_pos' = NextRun.pos
    /\ iteration' = NextRun.it
    /\ bpc' = NextRun.pc
    /\ UNCHANGED <<workflow, iterations, skip_combine, success, simulated,
                   sim_succeeded, combined>>
    /\ UNCHANGED <<collector_vars, dataset_vars, events_vars, runs_vars, api_vars>>

\* collect_training_data.py lines 293-298: generate_datasets if any file was
\* recorded; main.py line 207
Finish ==
    /\ bpc = "finish"
    /\ combined' = (/\ workflow = "collect_training_data"
                    /\ ~skip_combine
                    /\ all_data_files # <<>>)
    /\ bpc' = "done"
    /\ UNCHANGED <<workflow, iterations, skip_combine, scenario_pos, iteration,
                   success, data_file, all_data_files, collector_exit, simulated,
                   sim_succeeded, collected, trained>>
    /\ UNCHANGED <<collector_vars, dataset_vars, events_vars, runs_vars, api_vars>>

BatchNext ==
    \/ Simulate
    \/ Collect
    \/ Finish

BatchSpec == BatchInit /\ [][BatchNext]_vars

\* every run of the loops
AllRuns == {<<p, i>> : p \in 1..Len(Scenarios), i \in 1..iterations}

\* C22: a run whose simulation or collection failed is skipped and every
\* remaining iteration and scenario is still attempted: when the loops are
\* left, every iteration of every scenario has been simulated, and no failed
\* collection has left an entry in the list of data files
C22_EveryRunAttempted ==
    /\ bpc \in {"finish", "done"} => simulated = AllRuns
    /\ \A k \in 1..Len(all_data_files) : all_data_files[k] # <<>>

\* the first simulation failed, a collection failed, and the last iteration
\* of the last scenario was still reached
C22_Witness ==
    /\ bpc = "done"
    /\ workflow = "collect_training_data"
    /\ iterations > 1
    /\ <<1, 1>> \in simulated \ sim_succeeded
    /\ <<Len(Scenarios), iterations>> \in collected
    /\ data_file = <<>>

\* C24: when the collector subprocess exits with 0 after writing the matrix,
\* collect_metrics returns the path of the file
C24_PathReturned ==
    (/\ collector_exit.launched
     /\ collector_exit.returncode = 0
     /\ collector_exit.wrote) => data_file # <<>>

\* the scenario types run_simulation of the workflow can simulate
Known(wf) ==
    {"resource", "network", "pod-failure"}
        \cup (IF wf = "collect_training_data" THEN {"none"} ELSE {})

\* C28: collection starts only for a run whose simulation returned success,
\* training only after a collection that gave a file, and neither for a
\* scenario type run_simulation does not know
C28_CollectAfterSuccess ==
    /\ bpc = "collect" => ThisRun \in sim_succeeded
    /\ collected \subseteq sim_succeeded
    /\ trained \subseteq collected
    /\ \A r \in collected : Scenarios[r[1]] \in Known(workflow)

\* a run was collected after its simulation, one with a failed script and
\* one of unknown type were not
C28_Witness ==
    /\ \E r \in collected : Scenarios[r[1]] = "resource"
    /\ \E r \in simulated \ collected : Scenarios[r[1]] = "resource"
    /\ \E r \in simulated \ collected : Scenarios[r[1]] \notin Known(workflow)

(***************************************************************************)
(* Background collection of src/src/api.py (lines 38-40, 144-166,          *)
(* 270-296, 313-322).  The handlers are coroutines without an await, so    *)
(* one handler runs at a time; join blocks the handler while the           *)
(* collection thread goes on.  threads holds every thread ever created,    *)
(* collection_thread the position of the latest (0 for None), response the *)
(* status returned by the step just taken ("" if it returned none).        *)
(***************************************************************************)
\* threads created in one run of the service
MaxThreads == 3

\* iterations of the sleep loop of line 163, 300 in the code
SleepSeconds == 2

\* a thread at the while of line 146
NewThread == [pc |-> "check", slept |-> 0]

\* Thread.is_alive
is_alive(t) == threads[t].pc # "dead"

\* collection_thread and collection_thread.is_alive(): lines 275, 290, 320
Running == collection_thread # 0 /\ is_alive(collection_thread)

ApiInit ==
    /\ CollectorIdle
    /\ DatasetIdle
    /\ EventsIdle
    /\ RunsIdle
    /\ BatchIdle
    /\ collection_thread = 0
    /\ collection_stop_event = FALSE
    /\ threads = <<>>
    /\ handler = "idle"
    /\ response = ""
    /\ serving = TRUE

\* StartCollection without the is_alive test of line 275
StartCollectionNoCheck ==
    /\ serving
    /\ handler = "idle"
    /\ Len(threads) < MaxThreads
    /\ collection_stop_event' = FALSE
    /\ threads' = Append(threads, NewThread)
    /\ collection_thread' = Len(threads) + 1
    /\ response' = "Background collection started"
    /\ UNCHANGED <<handler, serving>>
    /\ UNCHANGED <<collector_vars, dataset_vars, events_vars, runs_vars, batch_vars>>

\* start_background_collection: lines 270-283
StartCollection ==
    /\ serving
    /\ handler = "idle"
    /\ IF Running
       THEN /\ response' = "Background collection already running"
            /\ UNCHANGED <<collection_thread, collection_stop_event, threads>>
       ELSE /\ Len(threads) < MaxThreads
            /\ collection_stop_event' = FALSE
            /\ threads' = Append(threads, NewThread)
            /\ collection_thread' = Len(threads) + 1
            /\ response' = "Background collection started"
    /\ UNCHANGED <<handler, serving>>
    /\ UNCHANGED <<collector_vars, dataset_vars, events_vars, runs_vars, batch_vars>>

\* stop_background_collection up to the join: lines 285-294
StopCollection ==
    /\ serving
    /\ handler = "idle"
    /\ IF ~Running
       THEN /\ response' = "Background collection not running"
            /\ UNCHANGED <<collection_stop_event, handler>>
       ELSE /\ collection_stop_event' = TRUE
            /\ handler' = "stop_join"
            /\ response' = ""
    /\ UNCHANGED <<collection_thread, threads, serving>>
    /\ UNCHANGED <<collector_vars, dataset_vars, events_vars, runs_vars, batch_vars>>

\* join(timeout=10) returns, the thread dead or not: lines 294-296
StopJoinReturns ==
    /\ handler = "stop_join"
    /\ handler' = "idle"
    /\ response' = "Background collection stopped"
    /\ UNCHANGED <<collection_thread, collection_stop_event, threads, serving>>
    /\ UNCHANGED <<collector_vars, dataset_vars, events_vars, runs_vars, batch_vars>>

\* shutdown_event up to the join: lines 313-322
Shutdown ==
    /\ serving
    /\ handler = "idle"
    /\ serving' = FALSE
    /\ response' = ""
    /\ IF Running
       THEN /\ collection_stop_event' = TRUE
            /\ handler' = "shutdown_join"
       ELSE UNCHANGED <<collection_stop_event, handler>>
    /\ UNCHANGED <<collection_thread, threads>>
    /\ UNCHANGED <<collector_vars, dataset_vars, events_vars, runs_vars, batch_vars>>

\* join(timeout=5) returns, the thread dead or not: line 322
ShutdownJoinReturns ==
    /\ handler = "shutdown_join"
    /\ handler' = "idle"
    /\ response' = ""
    /\ UNCHANGED <<collection_thread, collection_stop_event, threads, serving>>
    /\ UNCHANGED <<collector_vars, dataset_vars, events_vars, runs_vars, batch_vars>>

\* the process ends after the shutdown and takes its daemon thread (line
\* 280) with it
ProcessExit ==
    /\ ~serving
    /\ handler = "idle"
    /\ \E t \in DOMAIN threads : is_alive(t)
    /\ threads' = [t \in DOMAIN threads |-> [pc |-> "dead", slept |-> 0]]
    /\ response' = ""
    /\ UNCHANGED <<collection_thread, collection_stop_event, handler, serving>>
    /\ UNCHANGED <<collector_vars, dataset_vars, events_vars, runs_vars, batch_vars>>

\* while not collection_stop_event.is_set(): line 146
ThreadCheck(t) ==
    /\ threads[t].pc = "check"
    /\ threads' = [threads EXCEPT ![t] =
                      IF collection_stop_event
                      THEN [pc |-> "dead", slept |-> 0]
                      ELSE [pc |-> "task", slept |-> 0]]
    /\ response' = ""
    /\ UNCHANGED <<collection_thread, collection_stop_event, handler, serving>>
    /\ UNCHANGED <<collector_vars, dataset_vars, events_vars, runs_vars, batch_vars>>

\* run_collection_task and predict, their exceptions caught: lines 147-160
ThreadTask(t) ==
    /\ threads[t].pc = "task"
    /\ threads' = [threads EXCEPT ![t] = [pc |-> "sleep", slept |-> 0]]
    /\ response' = ""
    /\ UNCHANGED <<collection_thread, collection_stop_event, handler, serving>>
    /\ UNCHANGED <<collector_vars, dataset_vars, events_vars, runs_vars, batch_vars>>

\* one iteration of the sleep loop: lines 163-166
ThreadSleep(t) ==
    /\ threads[t].pc = "sleep"
    /\ threads' = [threads EXCEPT ![t] =
                      IF collection_stop_event \/ threads[t].slept + 1 = SleepSeconds
                      THEN [pc |-> "check", slept |-> 0]
                      ELSE [pc |-> "sleep", slept |-> threads[t].slept + 1]]
    /\ response' = ""
    /\ UNCHANGED <<collection_thread, collection_stop_event, handler, serving>>
    /\ UNCHANGED <<collector_vars, dataset_vars, events_vars, runs_vars, batch_vars>>

ApiNext ==
    \/ StartCollection
    \/ StopCollection
    \/ StopJoinReturns
    \/ Shutdown
    \/ ShutdownJoinReturns
    \/ ProcessExit
    \/ \E t \in DOMAIN threads : ThreadCheck(t)
    \/ \E t \in DOMAIN threads : ThreadTask(t)
    \/ \E t \in DOMAIN threads : ThreadSleep(t)

ApiSpec == ApiInit /\ [][ApiNext]_vars

\* C26: whenever start_background_collection returns, with either status,
\* there is a live collection thread and the stop event is clear
C26_StartLeavesCollectionRunning ==
    response \in {"Background collection started",
                  "Background collection already running"}
        => Running /\ ~collection_stop_event

\* C27: at most one background collection thread is alive
C27_OneThreadAlive ==
    Cardinality({t \in DOMAIN threads : is_alive(t)}) <= 1

\* a second thread was started after the first one was stopped and ended
C27_Witness ==
    /\ Len(threads) = 2
    /\ ~is_alive(1)
    /\ is_alive(2)
    /\ response = "Background collection started"

====
